---- MODULE Spec2Model ----
(***************************************************************************)
(* Model of morloher779/Programme.                                         *)
(*                                                                         *)
(*   src/Auswertung.py  the "puzzle method": buildings are cut into        *)
(*                      micro-clusters (puzzle pieces) which a greedy loop *)
(*                      hands to the least-loaded courier.                 *)
(*   src/tracker.py     the Streamlit street tracker that keeps the list   *)
(*                      of completed streets in column A of a Google sheet.*)
(*                                                                         *)
(* Coordinates are exact rationals <<x, y, d>> standing for (x/d, y/d);   *)
(* <<0, 0, 0>> is NaN (numpy's mean of an empty selection, 0/0).           *)
(*                                                                         *)
(* The script computes in binary64.  An anchor of the model is the exact   *)
(* value of 0.9 x + 0.1 c; the double the script stores is that value      *)
(* computed in binary64 and can differ from it in the last bits, and so    *)
(* can every distance computed from it.  A comparison of two computed      *)
(* distances is therefore a choice between both outcomes wherever the      *)
(* exact values do not settle what the doubles give (see Resolved, Less).  *)
(***************************************************************************)
EXTENDS Integers, Sequences, FiniteSets, TLC

VARIABLES
    pc,                 \* position in Auswertung.py: "assign", "done"; "idle" in the tracker
    person_names,       \* list(austraeger.keys()), declaration order
    gdf_pers_proj,      \* projected start coordinate of each person (never mutated)
    X,                  \* building centroids
    total_houses,       \* len(X)
    n_puzzle_pieces,    \* requested number of micro-clusters
    micro_labels,       \* label of every point, <<>> before clustering
    puzzle_pieces,      \* list of [id, center, size, assigned]
    person_load,        \* name -> number of houses
    person_assignments, \* name -> list of piece ids
    person_coords_proj, \* mutable anchor of each person
    unassigned_count,
    current_person,     \* person selected by the last pass ("" before the first)
    best_piece,         \* 1-based position in puzzle_pieces chosen by the last pass, 0 for None
    passes,             \* number of passes through the while body so far
    micro_to_person,    \* piece id -> name
    sheet,              \* column A of the Google sheet
    session_state,      \* per browser session: [loaded, completed_streets]
    saved_list,         \* argument of the most recent save_progress_google call
    script,             \* per browser session: the save_progress_google call in flight
    last_op,            \* what the most recent tracker step did
    last_session,       \* the session of the most recent tracker step
    marked_by           \* street -> the session that marked it as done, "none" if none did

avars == <<pc, person_names, gdf_pers_proj, X, total_houses, n_puzzle_pieces,
           micro_labels, puzzle_pieces, person_load, person_assignments,
           person_coords_proj, unassigned_count, current_person, best_piece,
           passes, micro_to_person>>

tvars == <<sheet, session_state, script, saved_list, last_op, last_session, marked_by>>

vars == <<avars, tvars>>

(***************************************************************************)
(* Bounds of the model.                                                    *)
(***************************************************************************)
MaxVaried == 4
MaxSize == 2

PieceCoords == {<<0, 0>>, <<1, 1>>, <<2, 2>>}
FillerCoords == <<(<<0, 0>>), (<<1, 1>>)>>
StartCoords == {<<0, 2>>, <<1, 0>>}
GridCoords == {0, 2} \X (0..1)
PieceSizes == {1, MaxSize}

Range(s) == {s[i] : i \in DOMAIN s}

RECURSIVE GCD(_, _)
GCD(a, b) == IF b = 0 THEN a ELSE GCD(b, a % b)

\* The same rational in lowest terms.
Norm(c) ==
    LET g == GCD(GCD(c[1], c[2]), c[3])
    IN  IF g = 0 THEN c ELSE <<c[1] \div g, c[2] \div g, c[3] \div g>>

NaN == <<0, 0, 0>>

IsNaN(c) == c[3] = 0

(***************************************************************************)
(* Auswertung.py, section 3: the pieces built from the labels.             *)
(***************************************************************************)

RECURSIVE SumCoord(_, _, _)
SumCoord(Xs, idx, k) ==
    IF idx = {} THEN 0
    ELSE LET j == CHOOSE j \in idx : TRUE
         IN  Xs[j][k] + SumCoord(Xs, idx \ {j}, k)

\* points.mean(axis=0); NaN for an empty selection.
mean(Xs, idx) ==
    Norm(<<SumCoord(Xs, idx, 1), SumCoord(Xs, idx, 2), Cardinality(idx)>>)

\* The loop that fills puzzle_pieces: position k holds the piece with id k-1.
BuildPieces(Xs, labels, P) ==
    [k \in 1..P |->
        LET mask == {j \in DOMAIN Xs : labels[j] = k - 1}
        IN  [id |-> k - 1, center |-> mean(Xs, mask),
             size |-> Cardinality(mask), assigned |-> FALSE]]

(***************************************************************************)
(* Auswertung.py, section 4: greedy balancing.                             *)
(***************************************************************************)

Index(names, p) == CHOOSE i \in DOMAIN names : names[i] = p

RECURSIVE InsertTiesFirst(_, _, _)
InsertTiesFirst(p, s, load) ==
    IF s = <<>> THEN <<p>>
    ELSE IF load[p] <= load[Head(s)] THEN <<p>> \o s
    ELSE <<Head(s)>> \o InsertTiesFirst(p, Tail(s), load)

RECURSIVE SortTiesFirst(_, _, _, _)
SortTiesFirst(names, load, i, acc) ==
    IF i > Len(names) THEN acc
    ELSE SortTiesFirst(names, load, i + 1, InsertTiesFirst(names[i], acc, load))

\* A sort by load that is not stable: among equal loads the later name wins.
sorted_unstable(names, load) == SortTiesFirst(names, load, 1, <<>>)

RECURSIVE InsertByLoad(_, _, _)
InsertByLoad(p, s, load) ==
    IF s = <<>> THEN <<p>>
    ELSE IF load[p] < load[Head(s)] THEN <<p>> \o s
    ELSE <<Head(s)>> \o InsertByLoad(p, Tail(s), load)

RECURSIVE SortByLoad(_, _, _, _)
SortByLoad(names, load, i, acc) ==
    IF i > Len(names) THEN acc
    ELSE SortByLoad(names, load, i + 1, InsertByLoad(names[i], acc, load))

\* sorted(person_names, key=lambda p: person_load[p]): Python's sort is stable.
sorted_persons(names, load) == SortByLoad(names, load, 1, <<>>)

\* The least loaded person when loads are compared in steps of 4 houses.
CoarselyLeastLoaded(names, load) ==
    sorted_persons(names, [n \in DOMAIN load |-> load[n] \div 4])[1]

\* current_person = sorted_persons[0]
LeastLoaded(names, load) == sorted_persons(names, load)[1]

\* The coordinate k of c is a whole number.  A start coordinate or a centre
\* that is whole and small is held by its double exactly.
Whole(c, k) == c[k] % c[3] = 0

\* Both coordinates of c lie in 0..2.
Small(c) == \A k \in 1..2 : c[k] >= 0 /\ c[k] <= 2 * c[3]

\* The exact distances of c1 and c2 from a tell how the computed ones
\* compare when they differ.  The points lie in 0..2, so a stored anchor is
\* within 1e-14 of its exact value however many blends led to it (each blend
\* adds an error of a few 2^-53 and shrinks the earlier one by 0.9) and a
\* computed distance within 1e-13 of the exact one.  With the denominators
\* below, two different squared distances differ by at least 1e-8 and the
\* distances by more than 1e-9: the doubles are ordered as the exact values.
\* Outside this range nothing is claimed: from the start (2^26, 0) the
\* centres (0, 1) and (0, 0) have different distances and the same double.
Resolved(c1, c2, a) ==
    /\ c1[3] <= 10
    /\ c2[3] <= 10
    /\ a[3] <= 100000000 \div ((c1[3] * c2[3]) * (c1[3] * c2[3]))
    /\ Small(c1)
    /\ Small(c2)
    /\ Small(a)

\* |c1 - a|^2 - |c2 - a|^2 = |c1|^2 - |c2|^2 - 2 a.(c1 - c2), times the
\* positive d1^2 d2^2 da, which leaves integers.
Margin(c1, c2, a) ==
    a[3] * (c2[3] * c2[3] * (c1[1] * c1[1] + c1[2] * c1[2])
            - c1[3] * c1[3] * (c2[1] * c2[1] + c2[2] * c2[2]))
    - 2 * c1[3] * c2[3] * (a[1] * (c1[1] * c2[3] - c2[1] * c1[3])
                           + a[2] * (c1[2] * c2[3] - c2[2] * c1[3]))

\* Nothing is rounded on the way to the two squared distances: the anchor is
\* still the start coordinate and all coordinates are small whole numbers.
Unrounded(c1, c2, a, drifted) ==
    /\ ~drifted
    /\ \A k \in 1..2 : Whole(c1, k) /\ Whole(c2, k) /\ Whole(a, k)

\* dist <= best_dist: a comparison that lets a later tie win.
LessOrEqual(c1, c2, a, drifted, favoured) ==
    IF c1 = c2 THEN TRUE
    ELSE IF ~Resolved(c1, c2, a) THEN c1 = favoured
    ELSE IF Margin(c1, c2, a) # 0 THEN Margin(c1, c2, a) < 0
    ELSE IF Unrounded(c1, c2, a, drifted) THEN TRUE
    ELSE c1 = favoured

\* dist < best_dist for dist = np.linalg.norm(c1 - a) and best_dist =
\* np.linalg.norm(c2 - a), all three finite, a being the exact value of the
\* anchor the script holds as a double.
\*   - The same centre gives the same double: False.
\*   - Where the doubles are not known to follow the exact values, and where
\*     the exact distances are equal but rounded on the way, the outcome is
\*     the rounding's.  `favoured` is the centre the rounding leaves with the
\*     smallest computed distance in this scan: the comparison is True for
\*     it and False for any other centre.
\*   - Equal distances computed without rounding are equal doubles: False.
\*   - Otherwise the exact distances decide.
Less(c1, c2, a, drifted, favoured) ==
    IF c1 = c2 THEN FALSE
    ELSE IF ~Resolved(c1, c2, a) THEN c1 = favoured
    ELSE IF Margin(c1, c2, a) # 0 THEN Margin(c1, c2, a) < 0
    ELSE IF Unrounded(c1, c2, a, drifted) THEN FALSE
    ELSE c1 = favoured

\* The for loop over puzzle_pieces from position i on, best being the
\* position held in best_piece so far (0: None, best_dist still inf).  A NaN
\* distance compares False with everything.
RECURSIVE Scan(_, _, _, _, _, _)
Scan(pieces, p_center, drifted, favoured, i, best) ==
    IF i > Len(pieces) THEN best
    ELSE IF /\ ~pieces[i].assigned
            /\ ~IsNaN(pieces[i].center)
            /\ ~IsNaN(p_center)
            /\ \/ best = 0
               \/ Less(pieces[i].center, pieces[best].center, p_center,
                       drifted, favoured)
         THEN Scan(pieces, p_center, drifted, favoured, i + 1, i)
         ELSE Scan(pieces, p_center, drifted, favoured, i + 1, best)

\* best_piece after the for loop.
NearestPiece(pieces, p_center, drifted, favoured) ==
    Scan(pieces, p_center, drifted, favoured, 1, 0)

\* The centres the rounding can favour in a scan: that of any unassigned
\* piece, or none (NaN is no piece's centre in a comparison).
Favourable(pieces) ==
    {NaN} \cup {pieces[i].center : i \in {j \in DOMAIN pieces : ~pieces[j].assigned}}

\* A test of the id instead of the piece: piece 0 is falsy.
TruthyId(pieces, bp) == bp # 0 /\ pieces[bp].id # 0

\* if best_piece: None is falsy, a piece (a non-empty dict) is truthy.
Truthy(pieces, bp) == bp # 0

\* A load that counts pieces instead of houses.
AddOne(load, size) == load + 1

\* person_load[current_person] += best_piece['size']
AddLoad(load, size) == load + size

\* An anchor that stays where it is.
NoDrift(a, c) == a

\* person_coords_proj[p_idx] * 0.9 + best_piece['center'] * 0.1
Drift(a, c) ==
    IF IsNaN(a) \/ IsNaN(c) THEN NaN
    ELSE Norm(<<9 * a[1] * c[3] + c[1] * a[3],
                9 * a[2] * c[3] + c[2] * a[3],
                10 * a[3] * c[3]>>)

\* A mapping that is filled from the first person's list only.
FirstPersonOnly(names, assignments) ==
    [pid \in Range(assignments[names[1]]) |-> names[1]]

\* The loop that fills micro_to_person: a later write replaces an earlier one.
MicroToPerson(names, assignments) ==
    LET ids == UNION {Range(assignments[n]) : n \in Range(names)}
        last(pid) == CHOOSE i \in DOMAIN names :
                        /\ pid \in Range(assignments[names[i]])
                        /\ \A j \in DOMAIN names :
                             pid \in Range(assignments[names[j]]) => j <= i
    IN  [pid \in ids |-> names[last(pid)]]

\* person_load, person_assignments and person_coords_proj as they are set up
\* before the loop.
ZeroLoad(names) == [n \in Range(names) |-> 0]

NoAssignments(names) == [n \in Range(names) |-> <<>>]

EmptyMapping == [pid \in {} |-> ""]

\* One pass through the body of `while unassigned_count > 0`.  The anchor has
\* drifted once the person holds a piece.  A pass that finds no piece changes
\* nothing but the pass counter, and the loop goes on; the counter is capped
\* one pass beyond n_puzzle_pieces to keep it finite.
GreedyStep ==
    /\ pc = "assign"
    /\ unassigned_count > 0
    /\ passes <= n_puzzle_pieces
    /\ LET cp == LeastLoaded(person_names, person_load)
           p_idx == Index(person_names, cp)
           p_center == person_coords_proj[p_idx]
       IN  \E bp \in {NearestPiece(puzzle_pieces, p_center,
                                     person_assignments[cp] # <<>>, favoured) :
                            favoured \in Favourable(puzzle_pieces)} :
           /\ current_person' = cp
           /\ best_piece' = bp
           /\ passes' = passes + 1
           /\ IF Truthy(puzzle_pieces, bp)
              THEN /\ puzzle_pieces' = [puzzle_pieces EXCEPT ![bp].assigned = TRUE]
                   /\ person_assignments' =
                        [person_assignments EXCEPT
                            ![cp] = Append(@, puzzle_pieces[bp].id)]
                   /\ person_load' =
                        [person_load EXCEPT
                            ![cp] = AddLoad(@, puzzle_pieces[bp].size)]
                   /\ unassigned_count' = unassigned_count - 1
                   /\ person_coords_proj' =
                        [person_coords_proj EXCEPT
                            ![p_idx] = Drift(@, puzzle_pieces[bp].center)]
              ELSE UNCHANGED <<puzzle_pieces, person_assignments, person_load,
                               unassigned_count, person_coords_proj>>
    /\ UNCHANGED <<pc, person_names, gdf_pers_proj, X, total_houses,
                   n_puzzle_pieces, micro_labels, micro_to_person>>
    /\ UNCHANGED tvars

\* The loop is left and micro_to_person is built.
BuildMapping ==
    /\ pc = "assign"
    /\ unassigned_count <= 0
    /\ micro_to_person' = MicroToPerson(person_names, person_assignments)
    /\ pc' = "done"
    /\ UNCHANGED <<person_names, gdf_pers_proj, X, total_houses, n_puzzle_pieces,
                   micro_labels, puzzle_pieces, person_load, person_assignments,
                   person_coords_proj, unassigned_count, current_person,
                   best_piece, passes>>
    /\ UNCHANGED tvars

(***************************************************************************)
(* tracker.py                                                              *)
(***************************************************************************)

\* sorted(gdf_streets['name'].unique().tolist())
all_street_names == <<"Ahornweg", "Birkenweg">>

\* The cell values considered, in the order of Python's string comparison:
\* the empty cell, the streets of the map, and a name that is not on the map.
StreetOrder == <<"", "Ahornweg", "Birkenweg", "Zeppelinweg">>

OffMapNames == {"Zeppelinweg"}

Sessions == {"s1", "s2"}

\* sorted(list(set(...))): every name of S once, in string order, on the map
\* or not.
SortedList(S) == SelectSeq(StreetOrder, LAMBDA n : n \in S)

\* sheet.col_values(1)
load_progress_google == sheet

\* sheet.clear()
clear == <<>>

\* column_data = [[street] for street in completed_streets]: built from the
\* module-level list of the running script, not from the parameter.
column_data(completed_list, completed_streets) == completed_streets

\* sheet.update(range_name='A1', values=column_data): the cells A1..An are
\* overwritten, the cells below them keep what they hold.
update(column, values) ==
    [i \in 1..(IF Len(values) > Len(column) THEN Len(values) ELSE Len(column)) |->
        IF i <= Len(values) THEN values[i] ELSE column[i]]

NotLoaded == [loaded |-> FALSE, completed_streets |-> <<>>]

\* No save_progress_google call in flight.
NoSave == [at |-> "idle", op |-> "none", completed_list |-> <<>>,
           column_data |-> <<>>, selected |-> {}, before |-> <<>>]

\* The first script run of a browser session: 'completed_streets' is not in
\* st.session_state, so the list is loaded from the sheet.
OpenPage(s) ==
    /\ pc = "idle"
    /\ script[s].at = "idle"
    /\ ~session_state[s].loaded
    /\ session_state' = [session_state EXCEPT
                            ![s] = [loaded |-> TRUE,
                                    completed_streets |-> load_progress_google]]
    /\ last_op' = "open"
    /\ last_session' = s
    /\ UNCHANGED <<sheet, script, saved_list, marked_by>>
    /\ UNCHANGED avars

\* save_progress_google(completed_list) up to and including sheet.clear().
\* `before` keeps the column as it was when the call began.
SaveClear(s, op, completed_list, completed_streets, selected) ==
    /\ sheet' = clear
    /\ script' = [script EXCEPT
                     ![s] = [at |-> "update", op |-> op,
                             completed_list |-> completed_list,
                             column_data |-> column_data(completed_list, completed_streets),
                             selected |-> selected, before |-> sheet]]
    /\ last_op' = "clear"
    /\ last_session' = s
    /\ UNCHANGED <<session_state, saved_list, marked_by>>

\* A script run with a non-empty selection in "Strassen als erledigt
\* markieren", as far as the sheet.clear() of its save.
MarkDone(s) ==
    /\ pc = "idle"
    /\ script[s].at = "idle"
    /\ session_state[s].loaded
    /\ LET completed_streets == session_state[s].completed_streets
           open_streets == {n \in Range(all_street_names) :
                               n \notin Range(completed_streets)}
       IN  \E newly_done \in (SUBSET open_streets) \ {{}} :
             LET updated_list == SortedList(Range(completed_streets) \cup newly_done)
             IN  SaveClear(s, "mark", updated_list, completed_streets, newly_done)
    /\ UNCHANGED avars

\* A script run with the admin password entered and "Loeschen anwenden"
\* pressed, as far as the sheet.clear() of its save.
AdminDelete(s) ==
    /\ pc = "idle"
    /\ script[s].at = "idle"
    /\ session_state[s].loaded
    /\ LET completed_streets == session_state[s].completed_streets
       IN  \E to_remove \in SUBSET Range(completed_streets) :
             LET new_list == SelectSeq(completed_streets, LAMBDA n : n \notin to_remove)
             IN  SaveClear(s, "delete", new_list, completed_streets, to_remove)
    /\ UNCHANGED avars

\* The rest of the script run: sheet.update() if column_data is not empty,
\* the return of save_progress_google, the assignment to
\* st.session_state.completed_streets and st.rerun().
SaveUpdate(s) ==
    /\ pc = "idle"
    /\ script[s].at = "update"
    /\ sheet' = IF script[s].column_data # <<>>
                THEN update(sheet, script[s].column_data)
                ELSE sheet
    /\ session_state' = [session_state EXCEPT
                            ![s].completed_streets = script[s].completed_list]
    /\ saved_list' = script[s].completed_list
    /\ marked_by' = [n \in DOMAIN marked_by |->
                       IF n \notin script[s].selected THEN marked_by[n]
                       ELSE IF script[s].op = "mark" THEN s ELSE "none"]
    /\ script' = [script EXCEPT ![s] = NoSave]
    /\ last_op' = script[s].op
    /\ last_session' = s
    /\ UNCHANGED avars

(***************************************************************************)
(* Initial states and specifications.                                      *)
(***************************************************************************)

TrackerIdle ==
    /\ sheet = <<>>
    /\ session_state = [s \in Sessions |-> NotLoaded]
    /\ script = [s \in Sessions |-> NoSave]
    /\ saved_list = <<>>
    /\ last_op = "none"
    /\ last_session = "none"
    /\ marked_by = [n \in Range(StreetOrder) |-> "none"]

RECURSIVE Repeat(_, _)
Repeat(v, n) == IF n = 0 THEN <<>> ELSE <<v>> \o Repeat(v, n - 1)

\* Points and labels that give the pieces with centres cs and sizes ss: the
\* members of a piece all lie on its centre.
RECURSIVE PointsOf(_, _, _)
PointsOf(cs, ss, i) ==
    IF i > Len(cs) THEN <<>>
    ELSE Repeat(cs[i], ss[i]) \o PointsOf(cs, ss, i + 1)

RECURSIVE LabelsOf(_, _)
LabelsOf(ss, i) ==
    IF i > Len(ss) THEN <<>>
    ELSE Repeat(i - 1, ss[i]) \o LabelsOf(ss, i + 1)

Coord(c) == <<c[1], c[2], 1>>

\* The state when the while loop is reached, for the given persons, P
\* pieces and the given choices of start coordinates and of the centres and
\* sizes of the first `varied` pieces; the pieces after them are single
\* houses on the points of FillerCoords in turn.
AtLoop(names, P, varied, coords, sizes, starts) ==
    /\ pc = "assign"
    /\ person_names = names
    /\ gdf_pers_proj \in [DOMAIN names -> {Coord(c) : c \in starts}]
    /\ n_puzzle_pieces = P
    /\ \E cv \in [1..varied -> coords] :
       \E sv \in [1..varied -> sizes] :
         LET cs == [i \in 1..P |->
                      IF i <= varied THEN cv[i]
                      ELSE FillerCoords[(i % Len(FillerCoords)) + 1]]
             ss == [i \in 1..P |-> IF i <= varied THEN sv[i] ELSE 1]
         IN  /\ X = PointsOf(cs, ss, 1)
             /\ micro_labels = LabelsOf(ss, 1)
    /\ total_houses = Len(X)
    /\ puzzle_pieces = BuildPieces(X, micro_labels, n_puzzle_pieces)
    /\ person_load = ZeroLoad(names)
    /\ person_assignments = NoAssignments(names)
    /\ person_coords_proj = gdf_pers_proj
    /\ unassigned_count = n_puzzle_pieces
    /\ current_person = ""
    /\ best_piece = 0
    /\ passes = 0
    /\ micro_to_person = EmptyMapping
    /\ TrackerIdle

\* Two persons: n_puzzle_pieces = len(austraeger) * 6 pieces, the first
\* MaxVaried of them of 1 or MaxSize houses anywhere on PieceCoords.
Init ==
    AtLoop(<<"Ben", "Stefan">>, Len(<<"Ben", "Stefan">>) * 6, MaxVaried,
           PieceCoords, PieceSizes, StartCoords)

Next == GreedyStep \/ BuildMapping

Spec == Init /\ [][Next]_vars

\* One person: n_puzzle_pieces = len(austraeger) * 6 pieces of one house
\* each, anywhere on the grid.
InitSolo ==
    AtLoop(<<"Ben">>, Len(<<"Ben">>) * 6, Len(<<"Ben">>) * 6,
           GridCoords, {1}, StartCoords)

\* The scenario "1 actor, 5 micro-clusters": the loop reached with one
\* person and 5 pieces of one house each, anywhere on the grid.  The script
\* itself never has 5 pieces (n_puzzle_pieces is a multiple of 6); the
\* piece count is the scenario's, the rest as in InitSolo.
InitFivePieces ==
    AtLoop(<<"Ben">>, 5, 5, GridCoords, {1}, StartCoords)

SpecSolo == (InitSolo \/ InitFivePieces) /\ [][Next]_vars

\* The tracker with no session open; column A holds any set of streets of the
\* map and off-map names, in string order.
InitTracker ==
    /\ pc = "idle"
    /\ person_names = <<>>
    /\ gdf_pers_proj = <<>>
    /\ X = <<>>
    /\ total_houses = 0
    /\ n_puzzle_pieces = 0
    /\ micro_labels = <<>>
    /\ puzzle_pieces = <<>>
    /\ person_load = ZeroLoad(person_names)
    /\ person_assignments = NoAssignments(person_names)
    /\ person_coords_proj = <<>>
    /\ unassigned_count = 0
    /\ current_person = ""
    /\ best_piece = 0
    /\ passes = 0
    /\ micro_to_person = EmptyMapping
    /\ sheet \in {SortedList(S) : S \in SUBSET (Range(all_street_names) \cup OffMapNames)}
    /\ session_state = [s \in Sessions |-> NotLoaded]
    /\ script = [s \in Sessions |-> NoSave]
    /\ saved_list = <<>>
    /\ last_op = "none"
    /\ last_session = "none"
    /\ marked_by = [n \in Range(StreetOrder) |-> "none"]

\* The script runs of the sessions are threads of one server: their requests
\* to the sheet interleave.
NextTracker ==
    \E s \in Sessions : OpenPage(s) \/ MarkDone(s) \/ AdminDelete(s) \/ SaveUpdate(s)

SpecTracker == InitTracker /\ [][NextTracker]_vars

(***************************************************************************)
(* Properties.  Distances are compared here through the difference of the  *)
(* exact squared distances, independently of Margin and Drift.             *)
(***************************************************************************)

\* |c1 - a|^2 - |c2 - a|^2 = (c1 - c2).(c1 + c2 - 2a), times the positive
\* (c1[3] * c2[3])^2 * a[3].
Gap(c1, c2, a) ==
    (c1[1] * c2[3] - c2[1] * c1[3])
        * (a[3] * (c1[1] * c2[3] + c2[1] * c1[3]) - 2 * a[1] * c1[3] * c2[3])
    + (c1[2] * c2[3] - c2[2] * c1[3])
        * (a[3] * (c1[2] * c2[3] + c2[2] * c1[3]) - 2 * a[2] * c1[3] * c2[3])

\* c1 is strictly nearer to a than c2 is; c1 and c2 are equally far from a.
DistLess(c1, c2, a) == Gap(c1, c2, a) < 0

DistEq(c1, c2, a) == Gap(c1, c2, a) = 0

\* The anchor a person who started at `start` has after taking the first k
\* pieces of the list L: x -> 0.9 x + 0.1 centre, once per piece.
RECURSIVE ExpectedAnchor(_, _, _)
ExpectedAnchor(start, L, k) ==
    IF k = 0 THEN start
    ELSE LET e == ExpectedAnchor(start, L, k - 1)
             c == puzzle_pieces[L[k] + 1].center
         IN  <<9 * e[1] * c[3] + c[1] * e[3],
               9 * e[2] * c[3] + c[2] * e[3],
               10 * e[3] * c[3]>>

SamePoint(a, b) == a[1] * b[3] = b[1] * a[3] /\ a[2] * b[3] = b[2] * a[3]

Occurrences(L, v) == Cardinality({i \in DOMAIN L : L[i] = v})

RECURSIVE SumOver(_, _, _)
SumOver(names, f, i) ==
    IF i > Len(names) THEN 0 ELSE f[names[i]] + SumOver(names, f, i + 1)

\* How often piece id v is listed, over all persons.
Listed(v) ==
    SumOver(person_names,
            [n \in Range(person_names) |-> Occurrences(person_assignments[n], v)], 1)

LoopTerminated == pc = "done" \/ (pc = "assign" /\ unassigned_count <= 0)

PieceIds == 0..(n_puzzle_pieces - 1)

MaxPieceSize ==
    CHOOSE m \in {puzzle_pieces[i].size : i \in DOMAIN puzzle_pieces} :
        \A i \in DOMAIN puzzle_pieces : puzzle_pieces[i].size <= m

\* A pass through the loop body has just been made.
Pass == pc = "assign" /\ passes' = passes + 1

\* C1: once the loop has terminated every piece id 0..P-1 is listed exactly
\* once over all persons' assignment lists, and micro_to_person, once built,
\* is a total function from the piece ids to the person that lists the piece.
C1_EveryPieceOwnedOnce ==
    /\ LoopTerminated => \A v \in PieceIds : Listed(v) = 1
    /\ pc = "done" =>
         /\ DOMAIN micro_to_person = PieceIds
         /\ \A v \in PieceIds :
              /\ micro_to_person[v] \in Range(person_names)
              /\ v \in Range(person_assignments[micro_to_person[v]])

C1_Witness ==
    /\ pc = "done"
    /\ n_puzzle_pieces >= 3
    /\ \A n \in Range(person_names) : Len(person_assignments[n]) >= 1
    /\ DOMAIN micro_to_person = PieceIds

\* C2: once the loop has terminated the loads of any two persons differ by at
\* most the size of the largest piece.
C2_FairnessBound ==
    LoopTerminated =>
        \A a, b \in Range(person_names) :
            person_load[a] - person_load[b] <= MaxPieceSize

C2_Witness ==
    /\ pc = "done"
    /\ n_puzzle_pieces >= 3
    /\ \E i, j \in DOMAIN puzzle_pieces : puzzle_pieces[i].size # puzzle_pieces[j].size
    /\ \E a, b \in Range(person_names) :
          /\ person_load[b] > 0
          /\ person_load[a] - person_load[b] = MaxPieceSize

\* C3: once the loop has terminated the loads sum to the number of input
\* points, and no step lowers a person's load.
C3_LoadConservation ==
    /\ [](LoopTerminated => SumOver(person_names, person_load, 1) = total_houses)
    /\ [][\A n \in Range(person_names) : person_load'[n] >= person_load[n]]_vars

C3_Witness ==
    /\ pc = "done"
    /\ total_houses > n_puzzle_pieces
    /\ \A n \in Range(person_names) : person_load[n] > 0
    /\ SumOver(person_names, person_load, 1) = total_houses

\* C4: every pass assigns one piece and lowers unassigned_count by one, so the
\* pieces assigned, the passes made and the pieces left always add up, and the
\* loop is left after exactly P passes.
C4_ExactlyPPasses ==
    /\ pc = "assign" =>
         /\ passes + unassigned_count = n_puzzle_pieces
         /\ Cardinality({i \in DOMAIN puzzle_pieces : puzzle_pieces[i].assigned}) = passes
    /\ pc = "done" => passes = n_puzzle_pieces /\ unassigned_count = 0

C4_Witness ==
    /\ pc = "done"
    /\ n_puzzle_pieces >= 3
    /\ passes = n_puzzle_pieces

\* C5: the person a pass selects has the least load of all before the pass,
\* and is the first in declaration order of those with that load.
C5_LeastLoadedFirstDeclared ==
    [][Pass =>
        \A q \in Range(person_names) :
            /\ person_load[current_person'] <= person_load[q]
            /\ person_load[q] = person_load[current_person'] =>
                 Index(person_names, current_person') <= Index(person_names, q)]_vars

\* A pass after the first that found the loads tied and took the first person.
C5_Witness ==
    /\ pc = "assign"
    /\ passes >= 3
    /\ best_piece # 0
    /\ current_person = person_names[1]
    /\ \E q \in Range(person_names) \ {current_person} :
          /\ person_load[q] > 0
          /\ person_load[q] = person_load[current_person] - puzzle_pieces[best_piece].size

\* All coordinates of the three points are whole numbers.
WholePoints(c1, c2, a) == \A k \in 1..2 : Whole(c1, k) /\ Whole(c2, k) /\ Whole(a, k)

SoloList == person_assignments[person_names[1]]

SoloCenter(k) == puzzle_pieces[SoloList[k] + 1].center

\* The anchor of the single person before its k-th piece.
SoloAnchor(k) == ExpectedAnchor(gdf_pers_proj[1], SoloList, k - 1)

\* C7 as stated: with a single person and 5 pieces, all 5 are appended to
\* the person's list, in non-decreasing order of distance from the person's
\* start coordinate.
C7_NearestFirstFromStart ==
    (pc = "done" /\ Len(person_names) = 1 /\ n_puzzle_pieces = 5) =>
        /\ Len(SoloList) = 5
        /\ \A k \in 1..(Len(SoloList) - 1) :
             ~DistLess(SoloCenter(k + 1), SoloCenter(k), gdf_pers_proj[1])

\* C7 as amended: with a single person, all pieces (the scenario's 5 as well
\* as the script's len(austraeger) * 6) are appended to the person's list,
\* each once, each having, of the pieces not yet appended, the least distance
\* as computed in binary64 from the anchor of its pass: the start coordinate
\* drifted by the pieces already appended, not the start coordinate itself.
\* In exact terms, at every point of the run: no piece that was not yet
\* appended is nearer to that anchor wherever the doubles resolve the
\* difference, and of such pieces on the same centre the lowest id is taken.
C7_NearestFirstFromAnchor ==
    Len(person_names) = 1 =>
        /\ pc = "done" =>
             /\ Len(SoloList) = n_puzzle_pieces
             /\ Range(SoloList) = PieceIds
        /\ \A k \in 1..Len(SoloList) : \A j \in DOMAIN puzzle_pieces :
             puzzle_pieces[j].id \notin {SoloList[i] : i \in 1..(k - 1)} =>
                LET c == puzzle_pieces[j].center
                IN  /\ SamePoint(c, SoloCenter(k)) => SoloList[k] <= puzzle_pieces[j].id
                    /\ Resolved(c, SoloCenter(k), SoloAnchor(k)) =>
                         ~DistLess(c, SoloCenter(k), SoloAnchor(k))

\* A finished run of the 5 pieces in which the drift made a piece overtake
\* one nearer to the start.
C7_Witness ==
    /\ pc = "done"
    /\ Len(person_names) = 1
    /\ n_puzzle_pieces = 5
    /\ Len(SoloList) = 5
    /\ \E k \in 1..(Len(SoloList) - 1) :
          DistLess(SoloCenter(k + 1), SoloCenter(k), gdf_pers_proj[1])

\* C9: when save_progress_google returns, column A holds the list that was
\* passed to it, which is the session's completed_streets.
C9_SheetHoldsSavedList ==
    last_op \in {"mark", "delete"} =>
        /\ sheet = saved_list
        /\ sheet = session_state[last_session].completed_streets

\* C10: a street that another session marked as done and that was in the
\* sheet when a "mark as done" save began is in the sheet when that save
\* returns.
C10_NoCompletedStreetLost ==
    [][last_op' = "mark" =>
        \A n \in Range(script[last_session'].before) :
            marked_by[n] \notin {"none", last_session'} => n \in Range(sheet')]_vars

====
